---- MODULE Spec2Model ----
(***************************************************************************)
(* Model of the two client-side stateful controllers of the restaurant     *)
(* ordering front end:                                                     *)
(*   - CartProvider      (src/unnamed/part_000, i.e. store/CartContext.tsx) *)
(*   - NotificationList  (components/Notification/NotificationList.tsx)     *)
(* The application is mounted with createRoot (src/frontend/src/main.tsx), *)
(* so all state setters called in one synchronous run of a handler or of   *)
(* an await continuation are batched into one commit: each action below is *)
(* one such run.                                                           *)
(***************************************************************************)
EXTENDS Integers, Sequences, FiniteSets

VARIABLES
    \* ---- CartProvider (part_000:36-38) ----
    cart,            \* useState<Cart | null>(null)
    cartItemCount,   \* useState(0)
    isLoading,       \* useState(false)
    \* ---- fetchCart calls: the promises of part_000:41-65 ----
    cartIssued,      \* number of fetchCart calls made so far (call ids 1..cartIssued)
    cartInFlight,    \* ids of the calls suspended at "await getCurrentCart()"
    cartLast,        \* what the call that settled last received and how it completed
    \* ---- NotificationList (NotificationList.tsx:29-36) ----
    mounted,         \* the component instance is mounted
    user,            \* useAuth().user is set
    notifications,   \* useState<NotificationDto[]>([])
    loading,         \* useState(true)
    page,            \* useState(0)
    totalPages,      \* useState(0)
    reported,        \* the parent's unread count: the last argument of onUnreadCountChange
    loadsInFlight,   \* pageNum -> number of loadNotifications(pageNum) calls awaiting the fetch
    marksInFlight,   \* the markAsRead calls awaiting the server (equal calls are numbered)
    lastOp           \* the handler that ran last, what it received, whether it called onUnreadCountChange

cartVars == <<cart, cartItemCount, isLoading, cartIssued, cartInFlight, cartLast>>

feedVars == <<mounted, user, notifications, loading, page, totalPages, reported,
              loadsInFlight, marksInFlight, lastOp>>

vars == <<cartVars, feedVars>>

(***************************************************************************)
(* Bounds of the cart model.                                               *)
(***************************************************************************)
MaxQuantity == 1
MaxItems == 2
MaxCartCalls == 2

(***************************************************************************)
(* Cart data (the Cart type imported at part_000:11; the fields the        *)
(* provider reads are items, item.status and item.quantity).               *)
(***************************************************************************)
ItemStatuses == {"AVAILABLE", "UNAVAILABLE"}

CartItems == [quantity : 0..MaxQuantity, status : ItemStatuses]

SeqsUpTo(S, n) == UNION {[1..k -> S] : k \in 0..n}

NullCart == [kind |-> "null", hasItems |-> FALSE, items |-> <<>>]

\* The values getCurrentCart() can resolve with: a cart whose items field is
\* absent (the optional chain at part_000:49 allows for it) or a list of items.
Carts ==
    {[kind |-> "cart", hasItems |-> FALSE, items |-> <<>>]}
    \cup {[kind |-> "cart", hasItems |-> TRUE, items |-> s] : s \in SeqsUpTo(CartItems, MaxItems)}

NoCartCall == [id |-> 0, failed |-> FALSE, response |-> NullCart, completion |-> "none", heldBefore |-> FALSE]

\* Array.prototype.filter with the predicate of part_000:50
RECURSIVE FilterAvailable(_)
FilterAvailable(items) ==
    IF items = <<>> THEN <<>>
    ELSE IF Head(items).status = "AVAILABLE"
         THEN <<Head(items)>> \o FilterAvailable(Tail(items))
         ELSE FilterAvailable(Tail(items))

\* Array.prototype.reduce((total, item) => total + item.quantity, 0), part_000:51
RECURSIVE ReduceQuantity(_, _)
ReduceQuantity(items, total) ==
    IF items = <<>> THEN total
    ELSE ReduceQuantity(Tail(items), total + Head(items).quantity)

\* A plausible slip: the status filter is dropped.
TotalCountUnfiltered(currentCart) ==
    IF ~currentCart.hasItems THEN 0 ELSE ReduceQuantity(currentCart.items, 0)

\* const totalCount = currentCart.items?.filter(...).reduce(...) || 0
TotalCount(currentCart) ==
    IF ~currentCart.hasItems
    THEN 0                                       \* undefined || 0
    ELSE LET sum == ReduceQuantity(FilterAvailable(currentCart.items), 0)
         IN  IF sum = 0 THEN 0 ELSE sum          \* sum || 0

(***************************************************************************)
(* CartProvider operations.                                                *)
(***************************************************************************)
\* fetchCart up to its await: setIsLoading(true), then getCurrentCart() is
\* pending.  Called by the mount effect (part_000:68-70) and by any consumer.
FetchCart ==
    /\ cartIssued < MaxCartCalls
    /\ cartIssued' = cartIssued + 1
    /\ cartInFlight' = cartInFlight \cup {cartIssued + 1}
    /\ isLoading' = TRUE
    /\ UNCHANGED <<cart, cartItemCount, cartLast>>
    /\ UNCHANGED feedVars

\* A variant that drops the response of a call that is not the newest one.
GetCurrentCartResolvesLatestOnly(id, currentCart) ==
    /\ id \in cartInFlight
    /\ IF id = cartIssued
       THEN /\ cart' = currentCart
            /\ cartItemCount' = TotalCount(currentCart)
       ELSE UNCHANGED <<cart, cartItemCount>>
    /\ isLoading' = FALSE
    /\ cartInFlight' = cartInFlight \ {id}
    /\ cartLast' = [id |-> id, failed |-> FALSE, response |-> currentCart,
                    completion |-> "fulfilled", heldBefore |-> cart.kind = "cart"]
    /\ UNCHANGED cartIssued
    /\ UNCHANGED feedVars

\* The continuation of fetchCart after getCurrentCart() resolved: the try
\* block (part_000:45-53) and the finally block (part_000:63).
GetCurrentCartResolves(id, currentCart) ==
    /\ id \in cartInFlight
    /\ cart' = currentCart
    /\ cartItemCount' = TotalCount(currentCart)
    /\ isLoading' = FALSE
    /\ cartInFlight' = cartInFlight \ {id}
    /\ cartLast' = [id |-> id, failed |-> FALSE, response |-> currentCart,
                    completion |-> "fulfilled", heldBefore |-> cart.kind = "cart"]
    /\ UNCHANGED cartIssued
    /\ UNCHANGED feedVars

\* A variant whose catch block logs and rethrows, keeping the held cart.
GetCurrentCartRejectsRethrow(id) ==
    /\ id \in cartInFlight
    /\ isLoading' = FALSE
    /\ cartInFlight' = cartInFlight \ {id}
    /\ cartLast' = [id |-> id, failed |-> TRUE, response |-> NullCart,
                    completion |-> "rejected", heldBefore |-> cart.kind = "cart"]
    /\ UNCHANGED <<cart, cartItemCount, cartIssued>>
    /\ UNCHANGED feedVars

\* The continuation of fetchCart after getCurrentCart() rejected: the catch
\* block (part_000:54-61), which does not rethrow, and the finally block.
GetCurrentCartRejects(id) ==
    /\ id \in cartInFlight
    /\ cart' = NullCart
    /\ cartItemCount' = 0
    /\ isLoading' = FALSE
    /\ cartInFlight' = cartInFlight \ {id}
    /\ cartLast' = [id |-> id, failed |-> TRUE, response |-> NullCart,
                    completion |-> "fulfilled", heldBefore |-> cart.kind = "cart"]
    /\ UNCHANGED cartIssued
    /\ UNCHANGED feedVars

(***************************************************************************)
(* Bounds of the notification feed model.                                  *)
(***************************************************************************)
MaxLen == 2           \* longest materialized list: page contents and pushes stay within it
MaxInFlight == 2      \* requests (page fetches and mark-as-read calls) awaiting the server at once

NotificationIds == {1, 2}

PageIndexes == {0, 1}

TotalPagesValues == {0, 1, 2}

(***************************************************************************)
(* Notification data (NotificationDto, NotificationList.tsx:6; the fields  *)
(* the component's logic reads are id and isRead).                         *)
(***************************************************************************)
Notifications == [id : NotificationIds, isRead : BOOLEAN]

HasDistinctIds(list) ==
    \A i, j \in 1..Len(list) : list[i].id = list[j].id => i = j

\* Page<Notification> of findByUserId (NotificationRepository.java:13): the
\* rows of one page have distinct primary keys, and page pageNum holds rows
\* exactly when pageNum < totalPages.  The component also allows for an
\* undefined pageData (the ?. and ?? of NotificationList.tsx:47-49).
NoPageData == [defined |-> FALSE, content |-> <<>>, totalPages |-> 0]

PageContents == {l \in SeqsUpTo(Notifications, MaxLen) : HasDistinctIds(l)}

PageResponsesOf ==
    [pageNum \in PageIndexes |->
        {NoPageData}
        \cup {d \in [defined : {TRUE}, content : PageContents, totalPages : TotalPagesValues] :
                (d.content # <<>>) <=> (pageNum < d.totalPages)}]

PageResponses(pageNum) == PageResponsesOf[pageNum]

\* { type: string; data: NotificationDto } (NotificationList.tsx:71, 84)
MessageTypes == {"NEW_NOTIFICATION", "PING"}

Messages == [type : MessageTypes, data : Notifications]

\* A pending markAsRead(id) call, the count its closure gives at
\* NotificationList.tsx:63, and its number among the pending calls equal to it.
MarkCalls == [id : NotificationIds, unreadOthers : 0..MaxLen, copy : 1..MaxInFlight]

NoOp == [kind |-> "none", called |-> FALSE, raised |-> FALSE, data |-> <<>>, page |-> 0, total |-> 0]

\* list.filter((n) => !n.isRead), NotificationList.tsx:50, 78
RECURSIVE FilterUnread(_)
FilterUnread(list) ==
    IF list = <<>> THEN <<>>
    ELSE IF ~Head(list).isRead
         THEN <<Head(list)>> \o FilterUnread(Tail(list))
         ELSE FilterUnread(Tail(list))

\* notifications.filter((n) => n.id !== id && !n.isRead), NotificationList.tsx:63
RECURSIVE FilterUnreadOthers(_, _)
FilterUnreadOthers(list, id) ==
    IF list = <<>> THEN <<>>
    ELSE IF Head(list).id # id /\ ~Head(list).isRead
         THEN <<Head(list)>> \o FilterUnreadOthers(Tail(list), id)
         ELSE FilterUnreadOthers(Tail(list), id)

\* prev.map((n) => (n.id === id ? updated : n)), NotificationList.tsx:61
MapReplace(prev, id, updated) ==
    [i \in 1..Len(prev) |-> IF prev[i].id = id THEN updated ELSE prev[i]]

\* The record markNotificationAsRead(id) resolves with: the same notification,
\* now read.
UpdatedNotification(id) == [id |-> id, isRead |-> TRUE]

\* The list a realtime handler's closure holds: useRealtimeMessage calls the
\* handler of the latest render.
HandlerNotifications == notifications

\* The pages the Pagination control offers: those of [0, totalPages) other
\* than the current one.
PaginationTargets == {p \in PageIndexes : p < totalPages /\ p # page}

RECURSIVE SumLoads(_)
SumLoads(pages) ==
    IF pages = {} THEN 0
    ELSE LET p == CHOOSE q \in pages : TRUE
         IN  loadsInFlight[p] + SumLoads(pages \ {p})

InFlight == SumLoads(PageIndexes) + Cardinality(marksInFlight)

(***************************************************************************)
(* NotificationList operations.                                            *)
(*                                                                         *)
(* A state setter called after the instance was unmounted is dropped by    *)
(* React: the component state below is then left as it is.  The parent's   *)
(* onUnreadCountChange is an ordinary function and runs all the same.      *)
(***************************************************************************)
\* The realtime subscriptions are open while the instance is mounted.
Subscribed == mounted

\* loadNotifications(pageNum) up to its await (NotificationList.tsx:43-46)
StartLoad(pageNum) ==
    /\ loading' = TRUE
    /\ loadsInFlight' = [loadsInFlight EXCEPT ![pageNum] = @ + 1]

\* The effect of NotificationList.tsx:38-41 running because useAuth() gave a
\* (new) user object: if (user) loadNotifications(page).
UserChanges ==
    /\ mounted
    /\ InFlight < MaxInFlight
    /\ user' = TRUE
    /\ StartLoad(page)
    /\ lastOp' = [NoOp EXCEPT !.kind = "start"]
    /\ UNCHANGED <<mounted, notifications, page, totalPages, reported, marksInFlight>>
    /\ UNCHANGED cartVars

\* onPageChange={setPage} (NotificationList.tsx:207-212), offered only when
\* the list is rendered (146-153), followed by the effect of 38-41.
SetPage(p) ==
    /\ mounted
    /\ ~loading
    /\ notifications # <<>>
    /\ p \in PaginationTargets
    /\ InFlight < MaxInFlight
    /\ page' = p
    /\ IF user THEN StartLoad(p) ELSE UNCHANGED <<loading, loadsInFlight>>
    /\ lastOp' = [NoOp EXCEPT !.kind = "start"]
    /\ UNCHANGED <<mounted, user, notifications, totalPages, reported, marksInFlight>>
    /\ UNCHANGED cartVars

\* The parent's callback as called by loadNotifications, in an instance that
\* was unmounted while the fetch was pending.
LoadResolvesUnmounted(pageNum, pageData, count) ==
    /\ reported' = count
    /\ lastOp' = [NoOp EXCEPT !.kind = "loadResolvesUnmounted", !.called = TRUE]
    /\ UNCHANGED <<notifications, totalPages, loading>>

\* A variant that reports the length of the page instead of its unread entries.
LoadResolvesCountsAll(pageNum, pageData) ==
    /\ loadsInFlight[pageNum] > 0
    /\ LET list == IF pageData.defined THEN pageData.content ELSE <<>>
       IN  IF mounted
           THEN /\ notifications' = list
                /\ totalPages' = (IF pageData.defined THEN pageData.totalPages ELSE 0)
                /\ reported' = Len(list)
                /\ loading' = FALSE
                /\ lastOp' = [NoOp EXCEPT !.kind = "loadResolves", !.called = TRUE,
                                          !.data = pageData.content, !.page = pageNum,
                                          !.total = pageData.totalPages]
           ELSE LoadResolvesUnmounted(pageNum, pageData, Len(list))
    /\ loadsInFlight' = [loadsInFlight EXCEPT ![pageNum] = @ - 1]
    /\ UNCHANGED <<mounted, user, page, marksInFlight>>
    /\ UNCHANGED cartVars

\* A variant that keeps the entry at the head of the list in front of the page.
LoadResolvesMerges(pageNum, pageData) ==
    /\ loadsInFlight[pageNum] > 0
    /\ LET list == IF pageData.defined THEN pageData.content ELSE <<>>
           kept == IF notifications # <<>> /\ Len(list) < MaxLen
                   THEN <<Head(notifications)>> \o list
                   ELSE list
       IN  IF mounted
           THEN /\ notifications' = kept
                /\ totalPages' = (IF pageData.defined THEN pageData.totalPages ELSE 0)
                /\ reported' = Len(FilterUnread(list))
                /\ loading' = FALSE
                /\ lastOp' = [NoOp EXCEPT !.kind = "loadResolves", !.called = TRUE,
                                          !.data = pageData.content, !.page = pageNum,
                                          !.total = pageData.totalPages]
           ELSE LoadResolvesUnmounted(pageNum, pageData, Len(FilterUnread(list)))
    /\ loadsInFlight' = [loadsInFlight EXCEPT ![pageNum] = @ - 1]
    /\ UNCHANGED <<mounted, user, page, marksInFlight>>
    /\ UNCHANGED cartVars

\* The continuation of loadNotifications after fetchMyNotifications resolved
\* (NotificationList.tsx:47-50) and the finally block (54).
LoadResolves(pageNum, pageData) ==
    /\ loadsInFlight[pageNum] > 0
    /\ LET list == IF pageData.defined THEN pageData.content ELSE <<>>
       IN  IF mounted
           THEN /\ notifications' = list
                /\ totalPages' = (IF pageData.defined THEN pageData.totalPages ELSE 0)
                /\ reported' = Len(FilterUnread(list))
                /\ loading' = FALSE
                /\ lastOp' = [NoOp EXCEPT !.kind = "loadResolves", !.called = TRUE,
                                          !.data = pageData.content, !.page = pageNum,
                                          !.total = pageData.totalPages]
           ELSE LoadResolvesUnmounted(pageNum, pageData, Len(FilterUnread(list)))
    /\ loadsInFlight' = [loadsInFlight EXCEPT ![pageNum] = @ - 1]
    /\ UNCHANGED <<mounted, user, page, marksInFlight>>
    /\ UNCHANGED cartVars

\* A variant whose catch block resets the list, as the cart provider's does.
LoadRejectsResets(pageNum) ==
    /\ loadsInFlight[pageNum] > 0
    /\ IF mounted
       THEN /\ notifications' = <<>>
            /\ loading' = FALSE
            /\ lastOp' = [NoOp EXCEPT !.kind = "loadRejects"]
       ELSE /\ lastOp' = [NoOp EXCEPT !.kind = "loadRejectsUnmounted"]
            /\ UNCHANGED <<notifications, loading>>
    /\ loadsInFlight' = [loadsInFlight EXCEPT ![pageNum] = @ - 1]
    /\ UNCHANGED <<mounted, user, page, totalPages, reported, marksInFlight>>
    /\ UNCHANGED cartVars

\* A variant without the finally block.
LoadRejectsKeepsLoading(pageNum) ==
    /\ loadsInFlight[pageNum] > 0
    /\ lastOp' = [NoOp EXCEPT !.kind = IF mounted THEN "loadRejects" ELSE "loadRejectsUnmounted"]
    /\ loadsInFlight' = [loadsInFlight EXCEPT ![pageNum] = @ - 1]
    /\ UNCHANGED <<mounted, user, notifications, loading, page, totalPages, reported, marksInFlight>>
    /\ UNCHANGED cartVars

\* The continuation of loadNotifications after fetchMyNotifications rejected:
\* the catch block (NotificationList.tsx:51-52) and the finally block (54).
LoadRejects(pageNum) ==
    /\ loadsInFlight[pageNum] > 0
    /\ IF mounted
       THEN /\ loading' = FALSE
            /\ lastOp' = [NoOp EXCEPT !.kind = "loadRejects"]
       ELSE /\ lastOp' = [NoOp EXCEPT !.kind = "loadRejectsUnmounted"]
            /\ UNCHANGED loading
    /\ loadsInFlight' = [loadsInFlight EXCEPT ![pageNum] = @ - 1]
    /\ UNCHANGED <<mounted, user, notifications, page, totalPages, reported, marksInFlight>>
    /\ UNCHANGED cartVars

\* markAsRead(id) up to its await (NotificationList.tsx:58-60).  The call
\* keeps the notifications of the render it was made in: the count of
\* NotificationList.tsx:63 is over that list, so it is fixed here.
StartMark(id) ==
    LET others == Len(FilterUnreadOthers(notifications, id))
        same == {c \in marksInFlight : c.id = id /\ c.unreadOthers = others}
    IN  marksInFlight' = marksInFlight \cup
            {[id |-> id, unreadOthers |-> others, copy |-> Cardinality(same) + 1]}

\* onClick={() => isUnread && markAsRead(n.id)} on the i-th rendered entry
\* (NotificationList.tsx:169-174).
ClickNotification(i) ==
    /\ mounted
    /\ ~loading
    /\ i \in 1..Len(notifications)
    /\ IF ~notifications[i].isRead
       THEN /\ InFlight < MaxInFlight
            /\ StartMark(notifications[i].id)
            /\ lastOp' = [NoOp EXCEPT !.kind = "click"]
       ELSE /\ UNCHANGED marksInFlight
            /\ lastOp' = [NoOp EXCEPT !.kind = "clickOnRead"]
    /\ UNCHANGED <<mounted, user, notifications, loading, page, totalPages, reported, loadsInFlight>>
    /\ UNCHANGED cartVars

\* The continuation of markAsRead after markNotificationAsRead resolved
\* (NotificationList.tsx:61-64).
MarkResolves(call) ==
    /\ call \in marksInFlight
    /\ \A c \in marksInFlight :
          (c.id = call.id /\ c.unreadOthers = call.unreadOthers) => c.copy <= call.copy
    /\ IF mounted
       THEN /\ notifications' = MapReplace(notifications, call.id, UpdatedNotification(call.id))
            /\ lastOp' = [NoOp EXCEPT !.kind = "markResolves", !.called = TRUE,
                                      !.data = <<UpdatedNotification(call.id)>>]
       ELSE /\ UNCHANGED notifications
            /\ lastOp' = [NoOp EXCEPT !.kind = "markResolvesUnmounted", !.called = TRUE]
    /\ reported' = call.unreadOthers
    /\ marksInFlight' = marksInFlight \ {call}
    /\ UNCHANGED <<mounted, user, loading, page, totalPages, loadsInFlight>>
    /\ UNCHANGED cartVars

\* A variant that applies the update before the server answered and keeps it.
MarkRejectsOptimistic(call) ==
    /\ call \in marksInFlight
    /\ \A c \in marksInFlight :
          (c.id = call.id /\ c.unreadOthers = call.unreadOthers) => c.copy <= call.copy
    /\ marksInFlight' = marksInFlight \ {call}
    /\ IF mounted
       THEN /\ notifications' = MapReplace(notifications, call.id, UpdatedNotification(call.id))
            /\ lastOp' = [NoOp EXCEPT !.kind = "markRejects"]
       ELSE /\ UNCHANGED notifications
            /\ lastOp' = [NoOp EXCEPT !.kind = "markRejectsUnmounted"]
    /\ UNCHANGED <<mounted, user, loading, page, totalPages, reported, loadsInFlight>>
    /\ UNCHANGED cartVars

\* The continuation of markAsRead after markNotificationAsRead rejected
\* (NotificationList.tsx:65-67): the error is logged, not rethrown.
MarkRejects(call) ==
    /\ call \in marksInFlight
    /\ \A c \in marksInFlight :
          (c.id = call.id /\ c.unreadOthers = call.unreadOthers) => c.copy <= call.copy
    /\ marksInFlight' = marksInFlight \ {call}
    /\ lastOp' = [NoOp EXCEPT !.kind = IF mounted THEN "markRejects" ELSE "markRejectsUnmounted"]
    /\ UNCHANGED <<mounted, user, notifications, loading, page, totalPages, reported, loadsInFlight>>
    /\ UNCHANGED cartVars

\* A variant that skips a record whose id is already in the list.
UserTopicMessageDedupes(msg) ==
    /\ Subscribed
    /\ user
    /\ Len(notifications) < MaxLen
    /\ IF msg.type = "NEW_NOTIFICATION"
       THEN /\ notifications' =
                  (IF \E i \in 1..Len(notifications) : notifications[i].id = msg.data.id
                   THEN notifications
                   ELSE <<msg.data>> \o notifications)
            /\ reported' = Len(FilterUnread(HandlerNotifications)) + 1
            /\ lastOp' = [NoOp EXCEPT !.kind = "userTopic", !.called = TRUE, !.data = <<msg.data>>]
       ELSE /\ UNCHANGED <<notifications, reported>>
            /\ lastOp' = [NoOp EXCEPT !.kind = "otherMessage"]
    /\ UNCHANGED <<mounted, user, loading, page, totalPages, loadsInFlight, marksInFlight>>
    /\ UNCHANGED cartVars

\* A variant without the test of msg.type.
UserTopicMessageAnyType(msg) ==
    /\ Subscribed
    /\ user
    /\ Len(notifications) < MaxLen
    /\ notifications' = <<msg.data>> \o notifications
    /\ reported' = Len(FilterUnread(HandlerNotifications)) + 1
    /\ lastOp' = [NoOp EXCEPT !.kind = IF msg.type = "NEW_NOTIFICATION" THEN "userTopic" ELSE "otherMessage",
                              !.called = TRUE]
    /\ UNCHANGED <<mounted, user, loading, page, totalPages, loadsInFlight, marksInFlight>>
    /\ UNCHANGED cartVars

\* The handler of the per-user topic (NotificationList.tsx:71-82).
UserTopicMessage(msg) ==
    /\ Subscribed
    /\ user
    /\ Len(notifications) < MaxLen
    /\ IF msg.type = "NEW_NOTIFICATION"
       THEN /\ notifications' = <<msg.data>> \o notifications
            /\ reported' = Len(FilterUnread(HandlerNotifications)) + 1
            /\ lastOp' = [NoOp EXCEPT !.kind = "userTopic", !.called = TRUE, !.data = <<msg.data>>]
       ELSE /\ UNCHANGED <<notifications, reported>>
            /\ lastOp' = [NoOp EXCEPT !.kind = "otherMessage"]
    /\ UNCHANGED <<mounted, user, loading, page, totalPages, loadsInFlight, marksInFlight>>
    /\ UNCHANGED cartVars

\* A variant of the admin handler that reports like the per-user handler.
AdminTopicMessageReports(msg) ==
    /\ Subscribed
    /\ Len(notifications) < MaxLen
    /\ IF msg.type = "NEW_NOTIFICATION"
       THEN /\ notifications' = <<msg.data>> \o notifications
            /\ reported' = Len(FilterUnread(HandlerNotifications)) + 1
            /\ lastOp' = [NoOp EXCEPT !.kind = "adminTopic", !.called = TRUE, !.data = <<msg.data>>]
       ELSE /\ UNCHANGED <<notifications, reported>>
            /\ lastOp' = [NoOp EXCEPT !.kind = "otherMessage"]
    /\ UNCHANGED <<mounted, user, loading, page, totalPages, loadsInFlight, marksInFlight>>
    /\ UNCHANGED cartVars

\* The handler of the admin broadcast topic (NotificationList.tsx:84-92).
AdminTopicMessage(msg) ==
    /\ Subscribed
    /\ Len(notifications) < MaxLen
    /\ IF msg.type = "NEW_NOTIFICATION"
       THEN /\ notifications' = <<msg.data>> \o notifications
            /\ lastOp' = [NoOp EXCEPT !.kind = "adminTopic", !.data = <<msg.data>>]
       ELSE /\ UNCHANGED notifications
            /\ lastOp' = [NoOp EXCEPT !.kind = "otherMessage"]
    /\ UNCHANGED <<mounted, user, loading, page, totalPages, reported, loadsInFlight, marksInFlight>>
    /\ UNCHANGED cartVars

\* The view is removed from the tree while requests may still be pending.
Unmount ==
    /\ mounted
    /\ mounted' = FALSE
    /\ lastOp' = [NoOp EXCEPT !.kind = "unmount"]
    /\ UNCHANGED <<user, notifications, loading, page, totalPages, reported, loadsInFlight, marksInFlight>>
    /\ UNCHANGED cartVars

(***************************************************************************)
(* Initial states and specifications.                                      *)
(***************************************************************************)
CartInit ==
    /\ cart = NullCart
    /\ cartItemCount = 0
    /\ isLoading = FALSE
    /\ cartIssued = 0
    /\ cartInFlight = {}
    /\ cartLast = NoCartCall

FeedInit ==
    /\ mounted = TRUE
    /\ user = FALSE
    /\ notifications = <<>>
    /\ loading = TRUE
    /\ page = 0
    /\ totalPages = 0
    /\ reported = 0
    /\ loadsInFlight = [p \in PageIndexes |-> 0]
    /\ marksInFlight = {}
    /\ lastOp = NoOp

Init == CartInit /\ FeedInit

CartNext ==
    \/ FetchCart
    \/ \E id \in cartInFlight, c \in Carts : GetCurrentCartResolves(id, c)
    \/ \E id \in cartInFlight : GetCurrentCartRejects(id)

FeedNext ==
    \/ UserChanges
    \/ \E p \in PageIndexes : SetPage(p)
    \/ \E p \in PageIndexes : \E d \in PageResponses(p) : LoadResolves(p, d)
    \/ \E p \in PageIndexes : LoadRejects(p)
    \/ \E i \in 1..MaxLen : ClickNotification(i)
    \/ \E call \in marksInFlight : MarkResolves(call)
    \/ \E call \in marksInFlight : MarkRejects(call)
    \/ \E msg \in Messages : UserTopicMessage(msg)
    \/ \E msg \in Messages : AdminTopicMessage(msg)

FeedLifeNext ==
    \/ FeedNext
    \/ Unmount

\* The cart provider alone.
CartSpec == Init /\ [][CartNext]_vars

\* The notification feed alone, for as long as its instance is mounted.
FeedSpec == Init /\ [][FeedNext]_vars

\* The notification feed alone, up to and after its unmounting.
FeedLifeSpec == Init /\ [][FeedLifeNext]_vars

\* A pending fetchMyNotifications settles, one way or the other.
LoadSettles ==
    \E p \in PageIndexes : (\E d \in PageResponses(p) : LoadResolves(p, d)) \/ LoadRejects(p)

\* The notification feed, with every pending page fetch settling eventually
\* (the network layer answers or times out).
FeedFairSpec == FeedSpec /\ WF_vars(LoadSettles)

Next == CartNext \/ FeedLifeNext

\* Both controllers, mounted side by side by main.tsx.
Spec == Init /\ [][Next]_vars

(***************************************************************************)
(* Properties of the cart provider (checked under CartSpec).               *)
(***************************************************************************)
\* The sum of quantity over the AVAILABLE items of a cart, by definition.
RECURSIVE AvailableQuantity(_)
AvailableQuantity(items) ==
    IF items = <<>> THEN 0
    ELSE (IF Head(items).status = "AVAILABLE" THEN Head(items).quantity ELSE 0)
         + AvailableQuantity(Tail(items))

\* C1: in every reachable state cartItemCount is the sum of quantity over the
\* AVAILABLE items of the held cart, 0 for a null cart or a cart without items.
CartItemCountIsAvailableQuantity ==
    cartItemCount = AvailableQuantity(cart.items)

\* C1 witness: a held cart with an UNAVAILABLE item of positive quantity next
\* to an AVAILABLE item, after two overlapping calls have settled.
CartWithMixedStatusesHeld ==
    /\ cartIssued = 2
    /\ cartInFlight = {}
    /\ cart.kind = "cart"
    /\ \E i, j \in 1..Len(cart.items) :
          /\ cart.items[i].status = "UNAVAILABLE" /\ cart.items[i].quantity > 0
          /\ cart.items[j].status = "AVAILABLE" /\ cart.items[j].quantity > 0

\* C2: while the call that settled last is one whose getCurrentCart failed,
\* the state is (cart = null, cartItemCount = 0), and that call's promise was
\* fulfilled, not rejected.
FailedFetchResetsCart ==
    cartLast.failed =>
        /\ cart = NullCart
        /\ cartItemCount = 0
        /\ cartLast.completion = "fulfilled"

\* C2 witness: a fetch failed while a cart was held.
FetchFailedWhileCartHeld ==
    cartLast.failed /\ cartLast.heldBefore

\* C3: once every issued call has settled, the held state is that of the call
\* that settled last, whatever its place in the order of issue.
LastResolvedCallWins ==
    (cartInFlight = {} /\ cartLast.id # 0) =>
        /\ cart = cartLast.response
        /\ cartItemCount = AvailableQuantity(cartLast.response.items)

\* C3 witness: all calls settled, the first-issued one last, with a cart that
\* counts.
EarlierCallResolvedLast ==
    /\ cartInFlight = {}
    /\ cartIssued = 2
    /\ cartLast.id = 1
    /\ ~cartLast.failed
    /\ cartItemCount > 0

\* C4: isLoading is true whenever a fetchCart call is in flight.
BusyFlagCoversInFlight ==
    cartInFlight # {} => isLoading

(***************************************************************************)
(* Properties of the notification feed (checked under FeedSpec).           *)
(***************************************************************************)
\* The number of entries of a list with isRead = false, by definition.
CountUnread(list) == Cardinality({i \in 1..Len(list) : ~list[i].isRead})

\* C5: right after a page fetch succeeded, the materialized list is the
\* fetched content and the callback was invoked with the number of its unread
\* entries (0 for an empty page).
LoadReportsUnreadOfContent ==
    lastOp.kind = "loadResolves" =>
        /\ notifications = lastOp.data
        /\ lastOp.called
        /\ reported = CountUnread(lastOp.data)

\* C5 witness: a page of two notifications, one of them unread, was loaded.
PageWithOneUnreadOfTwoLoaded ==
    /\ lastOp.kind = "loadResolves"
    /\ Len(lastOp.data) = 2
    /\ CountUnread(lastOp.data) = 1

ReportedIsUnreadInList ==
    reported = CountUnread(notifications)

\* C8: a NEW_NOTIFICATION on the per-user topic puts the record at position 0
\* and reports the previously reported count plus 1.
UserPushReportsPreviousPlusOne ==
    [][lastOp'.kind = "userTopic" =>
          /\ notifications' = lastOp'.data \o notifications
          /\ reported' = reported + 1]_vars

\* C9: a NEW_NOTIFICATION on the admin topic puts the record at position 0,
\* keeps the rest of the list, the page index and totalPages, and leaves the
\* reported count alone without invoking the callback.
AdminPushOnlyPrepends ==
    [][lastOp'.kind = "adminTopic" =>
          /\ Len(lastOp'.data) = 1
          /\ notifications' = lastOp'.data \o notifications
          /\ reported' = reported
          /\ ~lastOp'.called
          /\ page' = page
          /\ totalPages' = totalPages]_vars

\* C9 witness: an unread record arrived on the admin topic in front of a
\* loaded entry.
AdminPushedUnreadOntoLoadedList ==
    /\ lastOp.kind = "adminTopic"
    /\ Len(notifications) = 2
    /\ ~notifications[1].isRead
    /\ ~loading

\* C10: after a successful markAsRead(id) the entries with that id are read
\* and the reported count is the previously reported count minus 1.
MarkAsReadReportsPreviousMinusOne ==
    [][lastOp'.kind = "markResolves" =>
          /\ \A i \in 1..Len(notifications') :
                notifications'[i].id = lastOp'.data[1].id => notifications'[i].isRead
          /\ reported' = reported - 1]_vars

\* C11: any number of clicks on one entry leads to the same server calls as a
\* single click: while a markNotificationAsRead call for an identifier is
\* pending, no step issues another call for that identifier.
RepeatedClicksIssueOneCall ==
    [][\A c \in marksInFlight' \ marksInFlight :
          \A d \in marksInFlight : d.id # c.id]_vars

\* C12: when the server call of markAsRead fails, the list and the reported
\* count stay as they were, the callback is not invoked and nothing is raised
\* to the caller.
FailedMarkChangesNothing ==
    [][lastOp'.kind = "markRejects" =>
          /\ notifications' = notifications
          /\ reported' = reported
          /\ ~lastOp'.called
          /\ ~lastOp'.raised]_vars

\* C12 witness: a markAsRead call failed and its entry is still unread in the
\* list.
MarkFailedWithEntryStillUnread ==
    /\ lastOp.kind = "markRejects"
    /\ \E i \in 1..Len(notifications) : ~notifications[i].isRead

\* C13: with the page index at 1, when the fetch of page 1 has resolved and
\* the fetch of page 0 resolves after it as the last one in flight, the list,
\* totalPages and the reported count stay those of page 1.
StalePageResponseIsDiscarded ==
    [][(/\ page = 1
        /\ lastOp.kind = "loadResolves" /\ lastOp.page = 1
        /\ lastOp'.kind = "loadResolves" /\ lastOp'.page = 0
        /\ SumLoads(PageIndexes)' = 0)
       => /\ notifications' = notifications
          /\ totalPages' = totalPages
          /\ reported' = reported]_vars

(***************************************************************************)
(* Properties of the notification feed across its unmounting (checked      *)
(* under FeedLifeSpec).                                                    *)
(***************************************************************************)
\* C14: after the feed view is unmounted, a request that settles neither
\* changes the list nor invokes the parent's onUnreadCountChange.
NoUpdateAfterUnmount ==
    [][~mounted => (notifications' = notifications /\ ~lastOp'.called)]_vars

(***************************************************************************)
(* Further properties of the notification feed (checked under FeedSpec).   *)
(***************************************************************************)
\* C15: the identifiers of the entries of the materialized list are pairwise
\* distinct in every reachable state.
ListIdsPairwiseDistinct ==
    HasDistinctIds(notifications)

\* C16, on the states in which [0, totalPages) is not empty: the page index
\* lies in [0, totalPages).
PageIndexWithinTotalPages ==
    totalPages > 0 => (0 <= page /\ page < totalPages)

LoadReplacesListWholly ==
    lastOp.kind = "loadResolves" =>
        /\ Len(notifications) = Len(lastOp.data)
        /\ \A i \in 1..Len(notifications) : notifications[i] = lastOp.data[i]
        /\ totalPages = lastOp.total

\* C18 witness: a page was loaded that does not hold an entry of the list
\* before it, one whose markAsRead call is still pending.
LoadDroppedClickedEntry ==
    /\ lastOp.kind = "loadResolves"
    /\ notifications # <<>>
    /\ \E c \in marksInFlight :
          \A i \in 1..Len(notifications) : notifications[i].id # c.id

\* C19: a realtime message of another type than NEW_NOTIFICATION, on either
\* topic, leaves the list, totalPages, the page index and the reported count
\* as they were and does not invoke the callback.
OtherMessageTypesAreIgnored ==
    [][lastOp'.kind = "otherMessage" =>
          /\ notifications' = notifications
          /\ totalPages' = totalPages
          /\ page' = page
          /\ reported' = reported
          /\ ~lastOp'.called]_vars

\* C19 witness: a message of another type arrived while the list held entries
\* and a count had been reported.
OtherMessageOnLoadedList ==
    /\ lastOp.kind = "otherMessage"
    /\ notifications # <<>>
    /\ reported > 0

(***************************************************************************)
(* Termination of the loading state (checked under FeedFairSpec).          *)
(***************************************************************************)
\* C20: once a page fetch has been issued and none is in flight any more,
\* loading is false, however the fetches settled; and every state with a
\* fetch in flight is eventually followed by one with loading = false.
LoadingEndsWithLastFetch ==
    /\ []((user /\ SumLoads(PageIndexes) = 0) => ~loading)
    /\ ((SumLoads(PageIndexes) > 0) ~> ~loading)

\* C20 witness: the last fetch in flight failed after an earlier one had
\* filled the list, and the feed is no longer loading.
LastFetchFailedAfterSuccess ==
    /\ user
    /\ SumLoads(PageIndexes) = 0
    /\ lastOp.kind = "loadRejects"
    /\ notifications # <<>>
    /\ ~loading

====
